---- MODULE Spec2Model ----
(***************************************************************************)
(* telemetry-opcua-exporter: endpoint negotiation (client.findEndpoint)    *)
(* and the poll / cache / reload cycle (collector.Collector, main).        *)
(***************************************************************************)
EXTENDS Integers, Sequences, FiniteSets, TLC

(***************************************************************************)
(* Bounds of the model.                                                    *)
(***************************************************************************)
MaxEndpoints == 2
MaxLevel == 2

(***************************************************************************)
(* ua.MessageSecurityMode and ua.UserTokenType enumerations.               *)
(***************************************************************************)
MessageSecurityModeInvalid == 0
MessageSecurityModeNone == 1
MessageSecurityModeSign == 2
MessageSecurityModeSignAndEncrypt == 3

UserTokenTypeAnonymous == 0
UserTokenTypeUserName == 1
UserTokenTypeCertificate == 2

(***************************************************************************)
(* Strings.  Go strings are modelled by TLA+ strings; the operations the   *)
(* code applies to them (HasPrefix, concatenation with the URI prefix,     *)
(* ToLower) are tables over the strings of the model.                      *)
(***************************************************************************)
SecurityPolicyURIPrefix == "http://opcfoundation.org/UA/SecurityPolicy#"
SecurityPolicyURINone == "http://opcfoundation.org/UA/SecurityPolicy#None"
SecurityPolicyURIBasic256 == "http://opcfoundation.org/UA/SecurityPolicy#Basic256"
SecurityPolicyURIUnknown == "http://opcfoundation.org/UA/SecurityPolicy#Unknown"

PolicyNames ==
    {"None", "Basic128Rsa15", "Basic256", "Basic256Sha256",
     "Aes128_Sha256_RsaOaep", "Aes256_Sha256_RsaPss"}

HasURIPrefix(s) ==
    s \in {SecurityPolicyURIPrefix, SecurityPolicyURINone,
           SecurityPolicyURIBasic256, SecurityPolicyURIUnknown,
           "http://opcfoundation.org/UA/SecurityPolicy#Basic128Rsa15",
           "http://opcfoundation.org/UA/SecurityPolicy#Basic256Sha256",
           "http://opcfoundation.org/UA/SecurityPolicy#Aes128_Sha256_RsaOaep",
           "http://opcfoundation.org/UA/SecurityPolicy#Aes256_Sha256_RsaPss"}

\* ua.SecurityPolicyURIPrefix + s, for the names the code concatenates.
WithURIPrefix(s) ==
    CASE s = "None" -> SecurityPolicyURINone
      [] s = "Basic128Rsa15" -> "http://opcfoundation.org/UA/SecurityPolicy#Basic128Rsa15"
      [] s = "Basic256" -> SecurityPolicyURIBasic256
      [] s = "Basic256Sha256" -> "http://opcfoundation.org/UA/SecurityPolicy#Basic256Sha256"
      [] s = "Aes128_Sha256_RsaOaep" -> "http://opcfoundation.org/UA/SecurityPolicy#Aes128_Sha256_RsaOaep"
      [] s = "Aes256_Sha256_RsaPss" -> "http://opcfoundation.org/UA/SecurityPolicy#Aes256_Sha256_RsaPss"

\* strings.ToLower on the mode strings of the model.
ToLower(s) ==
    CASE s = "AUTO" -> "auto"
      [] s = "None" -> "none"
      [] s = "Sign" -> "sign"
      [] s = "SignAndEncrypt" -> "signandencrypt"
      [] OTHER -> s

\* ua.UserTokenTypeFromString on the three auth modes the exporter documents.
UserTokenTypeFromString(s) ==
    CASE s = "Anonymous" -> UserTokenTypeAnonymous
      [] s = "UserName" -> UserTokenTypeUserName
      [] s = "Certificate" -> UserTokenTypeCertificate

(***************************************************************************)
(* Inputs of the negotiation: config.ServerConfig (the three fields        *)
(* findEndpoint reads) and the ua.EndpointDescription list of discovery.   *)
(***************************************************************************)
SecPolicyInputs ==
    {"auto", "None", "Basic256", SecurityPolicyURIBasic256, SecurityPolicyURIUnknown,
     "Bogus"}
SecModeInputs == {"auto", "AUTO", "None", "Sign", "sign", "bogus"}
AuthModeInputs == {"Anonymous", "UserName"}

ServerConfigs ==
    [SecPolicy : SecPolicyInputs, SecMode : SecModeInputs, AuthMode : AuthModeInputs]

TokenSets ==
    {{UserTokenTypeAnonymous},
     {UserTokenTypeUserName, UserTokenTypeCertificate}}

EndpointDescriptions ==
    [SecurityPolicyURI : {SecurityPolicyURINone, SecurityPolicyURIBasic256},
     SecurityMode : {MessageSecurityModeNone, MessageSecurityModeSign,
                     MessageSecurityModeSignAndEncrypt},
     SecurityLevel : 1..MaxLevel,
     UserIdentityTokens : TokenSets]

EndpointLists == UNION {[1..n -> EndpointDescriptions] : n \in 0..MaxEndpoints}

VARIABLES
    srvCfg,      \* c config.ServerConfig
    discovery,   \* "ok" | "err": the outcome of opcua.GetEndpoints
    ee,          \* the endpoint list opcua.GetEndpoints returned
    negPc,       \* "start" | "done"
    negOut       \* the outcome of findEndpoint

negVars == <<srvCfg, discovery, ee, negPc, negOut>>

(***************************************************************************)
(* findEndpoint.  l.Fatal ends the process (jsonlog: log.Fatalln), so the  *)
(* outcome is the endpoint returned or the reason of the fatal exit.       *)
(***************************************************************************)

\* Lines 35-49: the policy string resolved; ok = FALSE is the l.Fatal branch.
ResolvePolicy(c) ==
    CASE c.SecPolicy = "auto" -> [ok |-> TRUE, policy |-> ""]
      [] c.SecPolicy # "auto" /\ HasURIPrefix(c.SecPolicy) ->
            [ok |-> TRUE, policy |-> c.SecPolicy]
      [] c.SecPolicy # "auto" /\ ~HasURIPrefix(c.SecPolicy)
            /\ c.SecPolicy \in PolicyNames ->
            [ok |-> TRUE, policy |-> WithURIPrefix(c.SecPolicy)]
      [] OTHER -> [ok |-> FALSE, policy |-> ""]

\* The default case of the mode switch without l.Fatal: an unknown mode is
\* taken for "auto".
ResolveModeLenient(c) ==
    CASE ToLower(c.SecMode) = "none" -> [ok |-> TRUE, mode |-> MessageSecurityModeNone]
      [] ToLower(c.SecMode) = "sign" -> [ok |-> TRUE, mode |-> MessageSecurityModeSign]
      [] ToLower(c.SecMode) = "signandencrypt" ->
            [ok |-> TRUE, mode |-> MessageSecurityModeSignAndEncrypt]
      [] OTHER -> [ok |-> TRUE, mode |-> MessageSecurityModeInvalid]

\* Lines 51-62: the mode string resolved; the zero value stands for "auto".
ResolveMode(c) ==
    CASE ToLower(c.SecMode) = "auto" -> [ok |-> TRUE, mode |-> MessageSecurityModeInvalid]
      [] ToLower(c.SecMode) = "none" -> [ok |-> TRUE, mode |-> MessageSecurityModeNone]
      [] ToLower(c.SecMode) = "sign" -> [ok |-> TRUE, mode |-> MessageSecurityModeSign]
      [] ToLower(c.SecMode) = "signandencrypt" ->
            [ok |-> TRUE, mode |-> MessageSecurityModeSignAndEncrypt]
      [] OTHER -> [ok |-> FALSE, mode |-> MessageSecurityModeInvalid]

\* Lines 64-68: choosing None for one of mode and policy sets both.
ForceNone(mode, policy) ==
    IF mode = MessageSecurityModeNone \/ policy = SecurityPolicyURINone
    THEN [mode |-> MessageSecurityModeNone, policy |-> SecurityPolicyURINone]
    ELSE [mode |-> mode, policy |-> policy]

\* The comparison of the scan with > for >=: the incumbent survives ties.
BetterStrict(e, ep, both) ==
    IF both
    THEN e.SecurityMode > ep.SecurityMode /\ e.SecurityLevel > ep.SecurityLevel
    ELSE e.SecurityLevel > ep.SecurityLevel

\* Lines 75, 82, 89, 96: the comparison of a candidate e with the incumbent ep
\* (both: the case of line 75, which also compares the modes).
Better(e, ep, both) ==
    IF both
    THEN e.SecurityMode >= ep.SecurityMode /\ e.SecurityLevel >= ep.SecurityLevel
    ELSE e.SecurityLevel >= ep.SecurityLevel

\* Lines 72-100: which candidates the scan of the selected case considers.
\* The case is selected on the raw strings c.SecMode and c.SecPolicy.
Considered(c, e, mode, policy) ==
    CASE c.SecMode = "auto" /\ c.SecPolicy = "auto" -> TRUE
      [] c.SecMode # "auto" /\ c.SecPolicy = "auto" -> e.SecurityMode = mode
      [] c.SecMode = "auto" /\ c.SecPolicy # "auto" -> e.SecurityPolicyURI = policy
      [] OTHER -> e.SecurityPolicyURI = policy /\ e.SecurityMode = mode

\* Lines 71-100: the scan; the result is the index of ep in the list, 0 for nil.
SelectEndpoint(c, list, mode, policy) ==
    LET both == c.SecMode = "auto" /\ c.SecPolicy = "auto"
        sel[i \in 0..Len(list)] ==
            IF i = 0 THEN 0
            ELSE IF Considered(c, list[i], mode, policy)
                    /\ (sel[i - 1] = 0 \/ Better(list[i], list[sel[i - 1]], both))
                 THEN i
                 ELSE sel[i - 1]
    IN sel[Len(list)]

\* The token check dropped: the selected endpoint is returned as it is.
CheckTokenNone(list, ep, utt) ==
    IF ep # 0 THEN ep ELSE 0

\* Lines 102-110: the selected endpoint is returned when it advertises the
\* requested token type; 0 stands for falling through to l.Fatal.
CheckToken(list, ep, utt) ==
    IF ep # 0 /\ utt \in list[ep].UserIdentityTokens THEN ep ELSE 0

\* findEndpoint as a whole: cand is the local ep after the scan, ep the
\* endpoint returned (0 when the process exits instead).
findEndpoint(c, disc, list) ==
    LET rp == ResolvePolicy(c)
        rm == ResolveMode(c)
        f == ForceNone(rm.mode, rp.policy)
        cand == SelectEndpoint(c, list, f.mode, f.policy)
        ret == CheckToken(list, cand, UserTokenTypeFromString(c.AuthMode))
    IN  IF disc # "ok"
        THEN [status |-> "DiscoveryFailed", cand |-> 0, ep |-> 0]
        ELSE IF ~rp.ok
        THEN [status |-> "InvalidPolicy", cand |-> 0, ep |-> 0]
        ELSE IF ~rm.ok
        THEN [status |-> "InvalidMode", cand |-> 0, ep |-> 0]
        ELSE IF ret # 0
        THEN [status |-> "ok", cand |-> cand, ep |-> ret]
        ELSE [status |-> "NoSuitableEndpoint", cand |-> cand, ep |-> 0]

NoOutcome == [status |-> "none", cand |-> 0, ep |-> 0]


(***************************************************************************)
(* The poll / cache / reload cycle.                                        *)
(*                                                                         *)
(* Goroutines: the HTTP handlers of /config/reload and /config/update (one *)
(* goroutine per request), the SIGHUP goroutine, the goroutine consuming   *)
(* reloadCh, and the scrapes of /metrics, each of which calls Collect on   *)
(* the collector value held by the registry.                               *)
(***************************************************************************)
NumHandlers == 2
NumPollers == 1

Handlers == 1..NumHandlers
Pollers == 1..NumPollers
Sighup == 0
Requesters == Handlers \cup {Sighup}

\* config.Metric records (name, help, nodeid, type, labels) of the model;
\* Labels is the set of the <<key, value>> pairs of the map.
MetricT ==
    [Name |-> "temp", Help |-> "temperature", NodeID |-> "ns=2;i=1", Type |-> "gauge",
     Labels |-> {}]
MetricP ==
    [Name |-> "pressure", Help |-> "pressure", NodeID |-> "ns=2;i=2", Type |-> "Float",
     Labels |-> {}]
MetricF ==
    [Name |-> "flow", Help |-> "flow", NodeID |-> "ns=2;i=3", Type |-> "counter",
     Labels |-> {<<"site", "a">>}]
MetricL ==
    [Name |-> "level", Help |-> "level", NodeID |-> "ns=2;i=4", Type |-> "gauge",
     Labels |-> {}]
MetricNoName ==
    [Name |-> "", Help |-> "speed", NodeID |-> "ns=2;i=5", Type |-> "gauge",
     Labels |-> {}]
MetricBadNode ==
    [Name |-> "speed", Help |-> "speed", NodeID |-> "bogus", Type |-> "gauge",
     Labels |-> {}]

\* Contents of the configuration file and bodies of requests: a YAML
\* document that parses or not (metrics is its metric list when it does), no
\* file at all, or an empty body.
YamlA == [kind |-> "yaml", parses |-> TRUE, metrics |-> <<MetricT>>]
YamlB == [kind |-> "yaml", parses |-> TRUE, metrics |-> <<MetricP, MetricF, MetricL>>]
YamlInvalid == [kind |-> "yaml", parses |-> TRUE, metrics |-> <<MetricP, MetricNoName>>]
YamlBadNode == [kind |-> "yaml", parses |-> TRUE, metrics |-> <<MetricP, MetricBadNode>>]
YamlBadNodeFirst ==
    [kind |-> "yaml", parses |-> TRUE, metrics |-> <<MetricBadNode, MetricP>>]
YamlBroken == [kind |-> "yaml", parses |-> FALSE, metrics |-> <<>>]
NoFile == [kind |-> "absent", parses |-> FALSE, metrics |-> <<>>]
EmptyBody == [kind |-> "empty", parses |-> FALSE, metrics |-> <<>>]

\* The metric lists of at most MaxMetrics entries, each entry complete or with
\* one field left empty or with a node identifier that does not parse, and
\* the documents that hold them.
MaxMetrics == 2

LoadEntries ==
    {MetricP, MetricF, MetricBadNode,
     [MetricL EXCEPT !.Name = ""], [MetricL EXCEPT !.Help = ""],
     [MetricL EXCEPT !.NodeID = ""], [MetricL EXCEPT !.Type = ""]}

LoadDocuments ==
    {[kind |-> "yaml", parses |-> TRUE, metrics |-> ms] :
        ms \in UNION {[1..n -> LoadEntries] : n \in 0..MaxMetrics}}

Documents == {YamlA, YamlB, YamlInvalid, YamlBadNode, YamlBroken}
Bodies == Documents \cup {EmptyBody}

None == "none"
NoRequester == NumHandlers + 1
\* The handle of the client NewCollector builds and connects.
OpcuaClient == "client"
NoCollector == [opcuaMetricsCache |-> <<>>, opcuaClient |-> ""]
NoOutput == [kind |-> "none", samples |-> <<>>, stats |-> {}, errors |-> 0]
NoSnapshot == [collector |-> NoCollector, registered |-> {}]

VARIABLES
    file,        \* the content of the file at configPath
    scC,         \* sc.C.MetricsConfig.Metrics
    collector,   \* *metricsCollector: [opcuaMetricsCache]
    registered,  \* the collector values held by registry
    pc,          \* position of each requester (handlers and the SIGHUP goroutine)
    wrote,       \* per handler: config.WriteFile was called for this request
    result,      \* per requester: what sendReloadChannel returned
    cpc,         \* position of the goroutine of reloadConfigOnChannel
    crc,         \* rc, the response channel it holds (named by its requester)
    cerr,        \* err of sc.reloadConfig
    ppc,         \* position of each scrape
    pcoll,       \* per scrape: the collector value Collect runs on
    presp,       \* per scrape: opcuaResponse
    pout,        \* per scrape: what Collect sent on ch
    ran,         \* history: per requester, the outcome of the reloadConfig run for it
    lastOk,      \* history: the last run of reloadConfig returned nil
    before,      \* history: per handler, cache and registration when the request began
    loadFailed,  \* history: per handler, loadMetricsCache returned an error
    pfail        \* history: per scrape goroutine, the read of its last round failed

runVars ==
    <<file, scC, collector, registered, pc, wrote, result, cpc, crc, cerr,
      ppc, pcoll, presp, pout, ran, lastOk, before, loadFailed, pfail>>

\* The startup of the process: main up to registry.Register.
VARIABLES
    creds,       \* the -cert / -key pair and the -username of the command line
    spc,         \* the position of main, "exited" once the process has ended
    client,      \* the options of the *opcua.Client and whether it is connected
    sfail        \* the reason of the exit, "none" while the process runs

startVars == <<creds, spc, client, sfail>>

\* newMetric and getMetricWithValue on one label map.
VARIABLES
    lmap,        \* labels: the label map of a config.Metric, as <<key, value>> pairs
    lm,          \* the *metric newMetric built from it
    lsample,     \* the last sample getMetricWithValue made of it
    lpc          \* "start" | "built"

labelVars == <<lmap, lm, lsample, lpc>>

vars == <<negVars, startVars, labelVars, runVars>>

(***************************************************************************)
(* package config                                                          *)
(***************************************************************************)

\* validate without the test of the type field.
validateNoType(metrics) ==
    IF Len(metrics) = 0 THEN "missing field 'metrics'"
    ELSE IF \E i \in 1..Len(metrics) :
                \/ metrics[i].Name = ""
                \/ metrics[i].Help = ""
                \/ metrics[i].NodeID = ""
         THEN "missing field"
         ELSE "nil"

\* MetricsConfig.validate: the error, "nil" when there is none.
validate(metrics) ==
    IF Len(metrics) = 0 THEN "missing field 'metrics'"
    ELSE IF \E i \in 1..Len(metrics) :
                \/ metrics[i].Name = ""
                \/ metrics[i].Help = ""
                \/ metrics[i].NodeID = ""
                \/ metrics[i].Type = ""
         THEN "missing field"
         ELSE "nil"

\* MetricsConfig.Unserialize: yaml.Unmarshal decodes into the receiver, so
\* the metric list is replaced as soon as the document parses.
Unserialize(old, content) ==
    IF content.parses
    THEN [err |-> "nil", metrics |-> content.metrics]
    ELSE [err |-> "yaml error", metrics |-> old]

\* Config.LoadMetricsConfig on the stored metric list old, with content the
\* file read: the error returned and the metric list the Config then holds.
LoadMetricsConfig(old, content) ==
    IF content = NoFile THEN [err |-> "nil", metrics |-> old]
    ELSE LET u == Unserialize(old, content)
         IN  IF u.err # "nil" THEN u
             ELSE [err |-> validate(u.metrics), metrics |-> u.metrics]

(***************************************************************************)
(* package collector                                                       *)
(***************************************************************************)

getMetricValueType(metricType) ==
    CASE metricType = "counter" -> "CounterValue"
      [] metricType = "gauge" -> "GaugeValue"
      [] metricType \in {"Float", "Double"} -> "GaugeValue"
      [] OTHER -> "UntypedValue"

\* ua.ParseNodeID succeeds on the node identifiers of the model but "bogus".
ParseNodeIDFails(nodeID) == nodeID = "bogus"

\* newMetric and the opcuaMetric literal of loadMetricsCache.
newOpcuaMetric(m) ==
    [name |-> m.Name, help |-> m.Help, typ |-> getMetricValueType(m.Type),
     labels |-> m.Labels, nodeID |-> m.NodeID]

\* loadMetricsCache building and connecting a new client when it replaces a
\* cache.
loadMetricsCacheReconnect(c, metrics) ==
    IF \E i \in 1..Len(metrics) : ParseNodeIDFails(metrics[i].NodeID)
    THEN [err |-> "invalid node id", c |-> c]
    ELSE [err |-> "nil",
          c |-> [opcuaMetricsCache |-> [i \in 1..Len(metrics) |-> newOpcuaMetric(metrics[i])],
                 opcuaClient |-> IF c.opcuaMetricsCache = <<>>
                                 THEN c.opcuaClient
                                 ELSE "reconnected"]]

\* loadMetricsCache appending to c.opcuaMetricsCache as it goes: the entries
\* before the first node identifier that fails to parse are installed.
loadMetricsCachePartial(c, metrics) ==
    IF \E i \in 1..Len(metrics) : ParseNodeIDFails(metrics[i].NodeID)
    THEN LET bad == CHOOSE i \in 1..Len(metrics) :
                        /\ ParseNodeIDFails(metrics[i].NodeID)
                        /\ \A j \in 1..(i - 1) : ~ParseNodeIDFails(metrics[j].NodeID)
         IN  [err |-> "invalid node id",
              c |-> [c EXCEPT !.opcuaMetricsCache =
                        [i \in 1..(bad - 1) |-> newOpcuaMetric(metrics[i])]]]
    ELSE [err |-> "nil",
          c |-> [c EXCEPT !.opcuaMetricsCache =
                    [i \in 1..Len(metrics) |-> newOpcuaMetric(metrics[i])]]]

\* loadMetricsCache: the error and the collector afterwards.
loadMetricsCache(c, metrics) ==
    IF \E i \in 1..Len(metrics) : ParseNodeIDFails(metrics[i].NodeID)
    THEN [err |-> "invalid node id", c |-> c]
    ELSE [err |-> "nil",
          c |-> [c EXCEPT !.opcuaMetricsCache =
                    [i \in 1..Len(metrics) |-> newOpcuaMetric(metrics[i])]]]

\* The collector NewCollector builds from a metric list.
NewCollector(metrics) ==
    loadMetricsCache([opcuaMetricsCache |-> <<>>, opcuaClient |-> OpcuaClient],
                     metrics).c

StatsNames ==
    {"opcua_scrape_walk_duration_seconds", "opcua_scrape_resp_returned",
     "opcua_scrape_duration_seconds", "opcua_client_read_duration_seconds"}

\* Describe: the descriptors of a collector value, by fully-qualified name.
Describe(c) ==
    {c.opcuaMetricsCache[i].name : i \in 1..Len(c.opcuaMetricsCache)}
        \cup StatsNames

\* prometheus.NewDesc leaves a descriptor without a valid name in error, and
\* such a descriptor has no identifier.
DescInvalid(name) == name = ""
CollectorID(c) == {d \in Describe(c) : ~DescInvalid(d)}

\* registry.Register: the registered collectors afterwards (unchanged when
\* Register returns an error).
Register(reg, c) ==
    IF \E d \in Describe(c) : DescInvalid(d) THEN reg
    ELSE IF \E r \in reg : CollectorID(r) \cap CollectorID(c) # {} THEN reg
    ELSE reg \cup {c}

\* registry.Unregister: the collector with the identifier of c is removed.
Unregister(reg, c) ==
    {r \in reg : CollectorID(r) # CollectorID(c)}

(***************************************************************************)
(* newMetric: the labels of a metric.                                      *)
(***************************************************************************)

LabelKeys == {"site", "line", "unit"}
LabelValues == {"a", "b"}

\* The label maps: one value for each key of a subset of LabelKeys.
LabelMaps ==
    UNION {{{<<k, f[k]>> : k \in ks} : f \in [ks -> LabelValues]} : ks \in SUBSET LabelKeys}

KeysOf(labels) == {kv[1] : kv \in labels}
ValueOf(labels, k) == (CHOOSE kv \in labels : kv[1] = k)[2]

\* The orders in which a range loop may visit the keys of the map.
Orders(labels) ==
    {o \in [1..Cardinality(labels) -> KeysOf(labels)] :
        \A i, j \in 1..Cardinality(labels) : o[i] = o[j] => i = j}

NoMetric ==
    [name |-> "", typ |-> "", labels |-> {}, labelsKeys |-> <<>>, labelsValues |-> <<>>,
     variableLabels |-> <<>>]
NoSample == [err |-> FALSE, name |-> "", pairs |-> <<>>, value |-> 0]

\* newMetric with the values gathered by a second loop over the map, which
\* visits the keys in the opposite order.
newMetricTwoLoops(name, typ, labels, order) ==
    [name |-> name, typ |-> typ, labels |-> labels,
     labelsKeys |-> order,
     labelsValues |-> [i \in 1..Len(order) |->
                            ValueOf(labels, order[Len(order) + 1 - i])],
     variableLabels |-> order]

\* newMetric, for the order in which its loop visits the map: the key and
\* the value of an entry are appended in the same iteration, and
\* prometheus.NewDesc takes the keys as the variable labels.
newMetric(name, typ, labels, order) ==
    [name |-> name, typ |-> typ, labels |-> labels,
     labelsKeys |-> order,
     labelsValues |-> [i \in 1..Len(order) |-> ValueOf(labels, order[i])],
     variableLabels |-> order]

\* getMetricWithValue: prometheus.NewConstMetric pairs the variable labels of
\* the descriptor with the label values by position, and refuses a number of
\* values other than the number of variable labels.
getMetricWithValue(m, value) ==
    IF Len(m.labelsValues) # Len(m.variableLabels)
    THEN [err |-> TRUE, name |-> m.name, pairs |-> <<>>, value |-> 0]
    ELSE [err |-> FALSE, name |-> m.name,
          pairs |-> [i \in 1..Len(m.variableLabels) |->
                        <<m.variableLabels[i], m.labelsValues[i]>>],
          value |-> value]

LabelsIdle ==
    /\ lmap = {}
    /\ lm = NoMetric
    /\ lsample = NoSample
    /\ lpc = "start"

(***************************************************************************)
(* Session building: NewClientFromServerConfig and Connect.                *)
(***************************************************************************)

\* The command line: pair is "none" when -cert or -key is empty, "rsa" for a
\* pair tls.LoadX509KeyPair loads with an RSA key, "unloadable" for files it
\* cannot read or parse, "notRsa" for a pair with a key of another type.
Creds == [pair : {"none", "rsa", "unloadable", "notRsa"}, Username : {"", "user"}]
NoCreds == [pair |-> "none", Username |-> ""]

NoClient ==
    [auth |-> "", username |-> "", signing |-> FALSE,
     mode |-> MessageSecurityModeInvalid, opened |-> FALSE]

\* loadCertificate: l.Fatal on a pair that does not load or whose key is not
\* RSA, the zero tls.Certificate without both paths.
loadCertificate(cr) ==
    CASE cr.pair = "none" -> [fatal |-> FALSE, crt |-> "zero"]
      [] cr.pair = "rsa" -> [fatal |-> FALSE, crt |-> "pair"]
      [] OTHER -> [fatal |-> TRUE, crt |-> "zero"]

\* authenticationOptions: the switch on c.AuthMode; crt.Certificate[0] on the
\* zero certificate is an index out of range.
authenticationOptions(c, cr, crt) ==
    CASE c.AuthMode = "Certificate" ->
            [panic |-> crt = "zero", auth |-> "Certificate", username |-> ""]
      [] c.AuthMode = "UserName" ->
            [panic |-> FALSE, auth |-> "UserName", username |-> cr.Username]
      [] OTHER -> [panic |-> FALSE, auth |-> "Anonymous", username |-> ""]

\* securityOptions: the switch on c.SecMode; crt.PrivateKey.(*rsa.PrivateKey)
\* on the zero certificate is a failed type assertion.
securityOptions(c, crt) ==
    IF c.SecMode \in {"Sign", "SignAndEncrypt"}
    THEN [panic |-> crt = "zero", signing |-> crt # "zero"]
    ELSE [panic |-> FALSE, signing |-> FALSE]

\* NewCollector going on after a failed Connect.
ConnectLogged(ok) == "connected"

\* NewCollector lines 52-54: c.Logger.Fatal when Connect returns an error.
Connect(ok) == IF ok THEN "connected" ELSE "exited"

\* The startup variables once main has registered the collector, for an
\* anonymous session without security.
StartIdle ==
    /\ creds = NoCreds
    /\ spc = "running"
    /\ client = [auth |-> "Anonymous", username |-> "", signing |-> FALSE,
                 mode |-> MessageSecurityModeNone, opened |-> TRUE]
    /\ sfail = "none"

\* The goroutines of the reloads and of the scrapes at rest.
RunIdle ==
    /\ pc = [r \in Requesters |-> "idle"]
    /\ wrote = [h \in Handlers |-> FALSE]
    /\ result = [r \in Requesters |-> None]
    /\ cpc = "idle"
    /\ crc = NoRequester
    /\ cerr = None
    /\ ppc = [p \in Pollers |-> "idle"]
    /\ pcoll = [p \in Pollers |-> NoCollector]
    /\ presp = [p \in Pollers |-> <<>>]
    /\ pout = [p \in Pollers |-> NoOutput]
    /\ ran = [r \in Requesters |-> None]
    /\ lastOk = FALSE
    /\ before = [h \in Handlers |-> NoSnapshot]
    /\ loadFailed = [h \in Handlers |-> FALSE]
    /\ pfail = [p \in Pollers |-> FALSE]

(***************************************************************************)
(* The state after main has registered the collector (lines 265-281): the  *)
(* file holds YamlA, NewConfig loaded it, NewCollector built the cache.    *)
(***************************************************************************)
RunStart ==
    /\ scC = YamlA.metrics
    /\ collector = NewCollector(YamlA.metrics)
    /\ registered = Register({}, NewCollector(YamlA.metrics))
    /\ StartIdle
    /\ RunIdle

RunInit == file = YamlA /\ RunStart

NegIdle ==
    /\ srvCfg = [SecPolicy |-> "auto", SecMode |-> "auto", AuthMode |-> "Anonymous"]
    /\ discovery = "ok"
    /\ ee = <<>>
    /\ negPc = "done"
    /\ negOut = NoOutcome

Init == NegIdle /\ LabelsIdle /\ RunInit

(***************************************************************************)
(* The environment: the configuration file is edited or removed.           *)
(***************************************************************************)
EditFile(content) ==
    /\ file # content
    /\ file' = content
    /\ UNCHANGED <<negVars, startVars, labelVars, pfail, scC, collector, registered, pc, wrote, result, cpc, crc, cerr,
                   ppc, pcoll, presp, pout, ran, lastOk, before, loadFailed>>

(***************************************************************************)
(* reloadConfigHandler, lines 325-339: a POST arrives; with updateFromBody *)
(* a non-empty body is written to configPath.  The handler then calls      *)
(* sendReloadChannel and blocks in reloadCh <- rc.                         *)
(***************************************************************************)
HandlerBegin(h, updateFromBody, body) ==
    /\ pc[h] = "idle"
    /\ pc' = [pc EXCEPT ![h] = "send"]
    /\ IF updateFromBody /\ body # EmptyBody
       THEN file' = body /\ wrote' = [wrote EXCEPT ![h] = TRUE]
       ELSE file' = file /\ wrote' = [wrote EXCEPT ![h] = FALSE]
    /\ result' = [result EXCEPT ![h] = None]
    /\ ran' = [ran EXCEPT ![h] = None]
    /\ before' = [before EXCEPT ![h] = [collector |-> collector, registered |-> registered]]
    /\ loadFailed' = [loadFailed EXCEPT ![h] = FALSE]
    /\ UNCHANGED <<negVars, startVars, labelVars, pfail, scC, collector, registered, cpc, crc, cerr, ppc, pcoll, presp,
                   pout, lastOk>>

\* reloadConfigOnSignal, lines 405-406: a SIGHUP is taken from hup and the
\* goroutine blocks in reloadCh <- rc.
SighupBegin ==
    /\ pc[Sighup] = "idle"
    /\ pc' = [pc EXCEPT ![Sighup] = "send"]
    /\ UNCHANGED <<negVars, startVars, labelVars, pfail, file, scC, collector, registered, wrote, result, ran, cpc, crc, cerr, ppc,
                   pcoll, presp, pout, lastOk, before, loadFailed>>

\* The rendezvous on the unbuffered reloadCh: line 395 in requester r and
\* line 418 in the consuming goroutine.
ReceiveReload(r) ==
    /\ pc[r] = "send"
    /\ cpc = "idle"
    /\ pc' = [pc EXCEPT ![r] = "recv"]
    /\ cpc' = "reload"
    /\ crc' = r
    /\ UNCHANGED <<negVars, startVars, labelVars, pfail, file, scC, collector, registered, wrote, result, cerr, ppc,
                   pcoll, presp, pout, ran, lastOk, before, loadFailed>>

\* SafeConfig.reloadConfig, line 419: the Config is loaded in place from the
\* file and stored again.
ReloadConfig ==
    /\ cpc = "reload"
    /\ LET l == LoadMetricsConfig(scC, file)
       IN  /\ scC' = l.metrics
           /\ cerr' = l.err
           /\ ran' = [ran EXCEPT ![crc] = l.err]
           /\ lastOk' = (l.err = "nil")
    /\ cpc' = "respond"
    /\ UNCHANGED <<negVars, startVars, labelVars, pfail, file, collector, registered, pc, wrote, result, crc, ppc, pcoll,
                   presp, pout, before, loadFailed>>

\* The value sent on rc is always nil.
ResponseNil(err) == "nil"

\* Lines 419-425: the value sent on rc.
Response(err) == IF err # "nil" THEN err ELSE "nil"

\* The rendezvous on rc: lines 421 / 424 in the consuming goroutine and line
\* 396 in the requester.  A handler goes on to line 345 whatever the result
\* (line 342 writes the 500 response and does not return); the SIGHUP
\* goroutine logs the error and waits for the next signal.
Respond ==
    /\ cpc = "respond"
    /\ pc[crc] = "recv"
    /\ result' = [result EXCEPT ![crc] = Response(cerr)]
    /\ pc' = [pc EXCEPT ![crc] = IF crc = Sighup THEN "done" ELSE "unregister"]
    /\ cpc' = "idle"
    /\ crc' = NoRequester
    /\ cerr' = None
    /\ UNCHANGED <<negVars, startVars, labelVars, pfail, file, scC, collector, registered, wrote, ppc, pcoll, presp, pout,
                   ran, lastOk, before, loadFailed>>

\* Lines 406-408: the SIGHUP goroutine has logged the error, if any, and
\* waits for the next signal.
SighupEnd ==
    /\ pc[Sighup] = "done"
    /\ pc' = [pc EXCEPT ![Sighup] = "idle"]
    /\ result' = [result EXCEPT ![Sighup] = None]
    /\ ran' = [ran EXCEPT ![Sighup] = None]
    /\ UNCHANGED <<negVars, startVars, labelVars, pfail, file, scC, collector, registered, wrote, cpc, crc, cerr, ppc,
                   pcoll, presp, pout, lastOk, before, loadFailed>>

\* Line 345: registry.Unregister(*metricsCollector).
HandlerUnregister(h) ==
    /\ pc[h] = "unregister"
    /\ registered' = Unregister(registered, collector)
    /\ pc' = [pc EXCEPT ![h] = "reloadMetrics"]
    /\ UNCHANGED <<negVars, startVars, labelVars, pfail, file, scC, collector, wrote, result, cpc, crc, cerr, ppc, pcoll,
                   presp, pout, ran, lastOk, before, loadFailed>>

\* ReloadMetrics writing the new entries over those of the installed slice,
\* which the registered copies of the collector share.
InstalledInPlace(reg, c) ==
    {[r EXCEPT !.opcuaMetricsCache = c.opcuaMetricsCache] : r \in reg}

\* The registered values once loadMetricsCache has assigned the collector c
\* its cache (part_002 line 139): the registry holds copies of the Collector
\* struct, whose slice and entries the assignment of a new slice leaves alone.
Installed(reg, c) == reg

\* Line 347: metricsCollector.ReloadMetrics(sc.GetConfig().MetricsConfig);
\* ReloadMetrics drops the error of loadMetricsCache.
HandlerReloadMetrics(h) ==
    /\ pc[h] = "reloadMetrics"
    /\ LET l == loadMetricsCache(collector, scC)
       IN  /\ collector' = l.c
           /\ loadFailed' = [loadFailed EXCEPT ![h] = l.err # "nil"]
           /\ registered' = Installed(registered, l.c)
    /\ pc' = [pc EXCEPT ![h] = "register"]
    /\ UNCHANGED <<negVars, startVars, labelVars, pfail, file, scC, wrote, result, cpc, crc, cerr, ppc, pcoll,
                   presp, pout, ran, lastOk, before>>

\* Lines 348-351: registry.Register(*metricsCollector); the handler returns.
HandlerRegister(h) ==
    /\ pc[h] = "register"
    /\ registered' = Register(registered, collector)
    /\ pc' = [pc EXCEPT ![h] = "done"]
    /\ UNCHANGED <<negVars, startVars, labelVars, pfail, file, scC, collector, wrote, result, cpc, crc, cerr, ppc, pcoll,
                   presp, pout, ran, lastOk, before, loadFailed>>

\* The response has been sent; the goroutine of the request ends.
HandlerEnd(h) ==
    /\ pc[h] = "done"
    /\ pc' = [pc EXCEPT ![h] = "idle"]
    /\ wrote' = [wrote EXCEPT ![h] = FALSE]
    /\ result' = [result EXCEPT ![h] = None]
    /\ ran' = [ran EXCEPT ![h] = None]
    /\ before' = [before EXCEPT ![h] = NoSnapshot]
    /\ loadFailed' = [loadFailed EXCEPT ![h] = FALSE]
    /\ UNCHANGED <<negVars, startVars, labelVars, pfail, file, scC, collector, registered, cpc, crc, cerr, ppc, pcoll,
                   presp, pout, lastOk>>

\* The status of the HTTP response of a handler past sendReloadChannel.
HttpStatus(h) == IF result[h] # "nil" THEN 500 ELSE 200

(***************************************************************************)
(* A scrape of /metrics.                                                   *)
(***************************************************************************)

\* Collect with a pointer receiver on the collector main keeps.
ReceiverShared(c) == collector

\* The receiver of Collect, for the collector value c the registry holds:
\* Collect has a value receiver, so it runs on c itself.
Receiver(c) == c

\* The outcomes of c.opcuaClient.Read: the request fails (ok = FALSE), or it
\* returns Len(nodes) + delta results, those at the indexes of bad with a
\* status that is not StatusOK.  A result is named by the node it was read
\* from, "extra" past the nodes requested.
ReadOutcomes ==
    [ok : BOOLEAN, delta : {0 - 1, 0, 1}, bad : SUBSET (1..Len(YamlB.metrics))]

\* The outcomes without a surprise: the request fails, or returns one good
\* result per node.
PlainReadOutcomes == {r \in ReadOutcomes : r.delta = 0 /\ r.bad = {}}

ReadResponse(nodes, read) ==
    LET n == IF Len(nodes) + read.delta < 0 THEN 0 ELSE Len(nodes) + read.delta
    IN  [i \in 1..n |->
            [node |-> IF i <= Len(nodes) THEN nodes[i] ELSE "extra",
             status |-> IF i \in read.bad THEN "Bad" ELSE "StatusOK"]]

\* Collect on a failed read sends the statistics samples all the same.
RequestFailedSendsStats(c) ==
    [kind |-> "error", samples |-> <<>>, stats |-> StatsNames, errors |-> 1]

\* Lines 83-87 of Collect: on a failed read one invalid metric on errorDesc is
\* sent, and Collect returns.
RequestFailed(c) ==
    [kind |-> "error", samples |-> <<>>, stats |-> {}, errors |-> 1]

\* The result of the last index, whatever the index asked for.
ResultLast(resp, idx) == resp[Len(resp)]

\* getOpcuaValueFromIndex, line 182: opcuaResponse.Results[idx].
ResultAt(resp, idx) == resp[idx]

\* Lines 91-96 of Collect, getErrorMetric and getMetricWithValue: the sample of
\* cache entry m for the result r.  A status other than StatusOK, or a
\* descriptor prometheus.NewConstMetric refuses, gives an invalid metric whose
\* error names the metric and its labels.
Sample(m, r) ==
    IF r.status # "StatusOK" \/ DescInvalid(m.name)
    THEN [err |-> TRUE, name |-> m.name, typ |-> "InvalidMetric", labels |-> m.labels,
          node |-> r.node, status |-> r.status]
    ELSE [err |-> FALSE, name |-> m.name, typ |-> m.typ, labels |-> m.labels,
          node |-> r.node, status |-> r.status]

\* The loop of lines 90-97 ended at the first result that is not StatusOK.
EmitSamplesUntilBad(cache, resp) ==
    LET stop == IF \E i \in 1..Len(cache) : resp[i].status # "StatusOK"
                THEN CHOOSE i \in 1..Len(cache) :
                        /\ resp[i].status # "StatusOK"
                        /\ \A j \in 1..(i - 1) : resp[j].status = "StatusOK"
                ELSE Len(cache)
    IN  [i \in 1..stop |-> Sample(cache[i], ResultAt(resp, i))]

\* Lines 90-97 of Collect: one sample per cache entry, in cache order, with
\* the result at the index of the entry.
EmitSamples(cache, resp) ==
    [i \in 1..Len(cache) |-> Sample(cache[i], ResultAt(resp, i))]

\* The registry calls Collect on a collector value it holds.  scrapeTarget,
\* and lines 82-87 of Collect: one read over the node of every cache entry,
\* in cache order.
PollScrape(p, read) ==
    /\ spc = "running"
    /\ ppc[p] = "idle"
    /\ \E c \in registered :
        LET cache == Receiver(c).opcuaMetricsCache
            nodes == [i \in 1..Len(cache) |-> cache[i].nodeID]
        IN  /\ pcoll' = [pcoll EXCEPT ![p] = c]
            /\ IF read.ok
               THEN /\ presp' = [presp EXCEPT ![p] = ReadResponse(nodes, read)]
                    /\ ppc' = [ppc EXCEPT ![p] = "emit"]
                    /\ pout' = pout
               ELSE /\ presp' = presp
                    /\ ppc' = [ppc EXCEPT ![p] = "done"]
                    /\ pout' = [pout EXCEPT ![p] = RequestFailed(c)]
    /\ UNCHANGED <<negVars, startVars, labelVars, file, scC, collector, registered, pc, wrote, result, cpc, crc,
                   cerr, ran, lastOk, before, loadFailed, pfail>>

\* Lines 90-111 of Collect: the per-metric samples, then the four statistics
\* samples; an index past the results panics (line 182).
PollEmit(p) ==
    /\ ppc[p] = "emit"
    /\ LET cache == Receiver(pcoll[p]).opcuaMetricsCache
       IN  pout' = [pout EXCEPT ![p] =
                IF Len(cache) > Len(presp[p])
                THEN [kind |-> "panic", samples |-> <<>>, stats |-> {}, errors |-> 0]
                ELSE [kind |-> "samples",
                      samples |-> EmitSamples(cache, presp[p]),
                      stats |-> StatsNames,
                      errors |-> 0]]
    /\ ppc' = [ppc EXCEPT ![p] = "done"]
    /\ UNCHANGED <<negVars, startVars, labelVars, file, scC, collector, registered, pc, wrote, result, cpc, crc,
                   cerr, pcoll, presp, ran, lastOk, before, loadFailed, pfail>>

\* The scrape ends; pfail remembers whether its read had failed.
PollEnd(p) ==
    /\ ppc[p] = "done"
    /\ ppc' = [ppc EXCEPT ![p] = "idle"]
    /\ pfail' = [pfail EXCEPT ![p] = pout[p].kind = "error"]
    /\ pcoll' = [pcoll EXCEPT ![p] = NoCollector]
    /\ presp' = [presp EXCEPT ![p] = <<>>]
    /\ pout' = [pout EXCEPT ![p] = NoOutput]
    /\ UNCHANGED <<negVars, startVars, labelVars, file, scC, collector, registered, pc, wrote, result, cpc, crc,
                   cerr, ran, lastOk, before, loadFailed>>

(***************************************************************************)
(* The startup: main lines 265-281, NewCollector, NewClientFromServerConfig. *)
(* l.Fatal, os.Exit and a panic of the main goroutine end the process.     *)
(***************************************************************************)

\* main lines 265-269: config.NewConfig loads the file into an empty
\* MetricsConfig; os.Exit(1) on an error.
StartNewConfig ==
    /\ spc = "start"
    /\ LET l == LoadMetricsConfig(<<>>, file)
       IN  IF l.err # "nil"
           THEN /\ spc' = "exited"
                /\ sfail' = "ConfigError"
                /\ scC' = scC
           ELSE /\ spc' = "config"
                /\ sfail' = sfail
                /\ scC' = l.metrics
    /\ UNCHANGED <<negVars, labelVars, creds, client, file, collector, registered, pc, wrote, result,
                   cpc, crc, cerr, ppc, pcoll, presp, pout, ran, lastOk, before,
                   loadFailed, pfail>>

\* NewClientFromServerConfig line 16: findEndpoint, whose l.Fatal ends the
\* process.
StartFindEndpoint ==
    /\ spc = "config"
    /\ negOut' = findEndpoint(srvCfg, discovery, ee)
    /\ negPc' = "done"
    /\ IF negOut'.status = "ok"
       THEN spc' = "found" /\ sfail' = sfail
       ELSE spc' = "exited" /\ sfail' = negOut'.status
    /\ UNCHANGED <<srvCfg, discovery, ee, labelVars, creds, client, runVars>>

\* NewClientFromServerConfig line 17: loadCertificate.
StartLoadCertificate ==
    /\ spc = "found"
    /\ IF loadCertificate(creds).fatal
       THEN spc' = "exited" /\ sfail' = "CertificateError"
       ELSE spc' = "loaded" /\ sfail' = sfail
    /\ UNCHANGED <<negVars, labelVars, creds, client, runVars>>

\* NewClientFromServerConfig lines 19-26: the options of the client and
\* opcua.NewClient; SecurityFromEndpoint takes the mode of the endpoint.
StartOptions ==
    /\ spc = "loaded"
    /\ LET crt == loadCertificate(creds).crt
           a == authenticationOptions(srvCfg, creds, crt)
           o == securityOptions(srvCfg, crt)
       IN  IF a.panic \/ o.panic
           THEN /\ spc' = "exited"
                /\ sfail' = "panic"
                /\ client' = client
           ELSE /\ spc' = "built"
                /\ sfail' = sfail
                /\ client' = [auth |-> a.auth, username |-> a.username,
                              signing |-> o.signing,
                              mode |-> ee[negOut.ep].SecurityMode,
                              opened |-> FALSE]
    /\ UNCHANGED <<negVars, labelVars, creds, runVars>>

\* NewCollector lines 52-54: c.opcuaClient.Connect.
StartConnect(ok) ==
    /\ spc = "built"
    /\ spc' = Connect(ok)
    /\ sfail' = IF spc' = "exited" THEN "ConnectionError" ELSE sfail
    /\ client' = [client EXCEPT !.opened = ok]
    /\ UNCHANGED <<negVars, labelVars, creds, runVars>>

\* NewCollector lines 55-63: ReloadMetrics on the metric list NewConfig
\* loaded, its error dropped.
StartLoadMetrics ==
    /\ spc = "connected"
    /\ collector' = NewCollector(scC)
    /\ spc' = "collector"
    /\ UNCHANGED <<negVars, labelVars, creds, client, sfail, file, scC, registered, pc, wrote, result,
                   cpc, crc, cerr, ppc, pcoll, presp, pout, ran, lastOk, before,
                   loadFailed, pfail>>

\* main lines 279-289: registry.Register(*metricsCollector), then the HTTP
\* handlers.
StartRegister ==
    /\ spc = "collector"
    /\ registered' = Register(registered, collector)
    /\ spc' = "running"
    /\ UNCHANGED <<negVars, labelVars, creds, client, sfail, file, scC, collector, pc, wrote, result,
                   cpc, crc, cerr, ppc, pcoll, presp, pout, ran, lastOk, before,
                   loadFailed, pfail>>

(***************************************************************************)
(* Specifications.                                                         *)
(***************************************************************************)
\* The steps of the reload path: the requests of the handlers hs carry the
\* bodies given, and the file is edited to the documents of edits.
ReloadStep(hs, bodies, edits) ==
    \/ \E content \in edits : EditFile(content)
    \/ \E h \in hs, u \in BOOLEAN, body \in bodies : HandlerBegin(h, u, body)
    \/ SighupBegin
    \/ SighupEnd
    \/ \E r \in hs \cup {Sighup} : ReceiveReload(r)
    \/ ReloadConfig
    \/ Respond
    \/ \E h \in hs : HandlerUnregister(h)
    \/ \E h \in hs : HandlerReloadMetrics(h)
    \/ \E h \in hs : HandlerRegister(h)
    \/ \E h \in hs : HandlerEnd(h)

PollStep(reads) ==
    \/ \E p \in Pollers, read \in reads : PollScrape(p, read)
    \/ \E p \in Pollers : PollEmit(p)
    \/ \E p \in Pollers : PollEnd(p)

\* Every goroutine: overlapping HTTP requests, the SIGHUP goroutine and the
\* scrapes.
Next ==
    \/ ReloadStep(Handlers, {YamlB, YamlInvalid, EmptyBody}, {YamlB})
    \/ PollStep(PlainReadOutcomes)

Spec == Init /\ [][Next]_vars

\* One HTTP request at a time, with the SIGHUP goroutine and the scrapes
\* running alongside, over every document of the model.
NextOne ==
    \/ ReloadStep({1}, Bodies, {YamlB, NoFile})
    \/ PollStep(PlainReadOutcomes)

SpecOne == Init /\ [][NextOne]_vars

\* The scrapes over every outcome of the read, with POSTs to /config that
\* replace the cache alongside.
NextPoll ==
    \/ HandlerBegin(1, TRUE, YamlB)
    \/ ReceiveReload(1)
    \/ ReloadConfig
    \/ Respond
    \/ HandlerUnregister(1)
    \/ HandlerReloadMetrics(1)
    \/ HandlerRegister(1)
    \/ HandlerEnd(1)
    \/ PollStep(ReadOutcomes)

SpecPoll == Init /\ [][NextPoll]_vars

\* The reloads of one HTTP request over metric lists with a node identifier
\* that does not parse, first or last in the list, and the scrapes.
NextCache ==
    \/ ReloadStep({1}, {YamlB, YamlBadNode, YamlBadNodeFirst}, {YamlA})
    \/ PollStep(PlainReadOutcomes)

SpecCache == Init /\ [][NextCache]_vars

\* Validation and the cache build over every metric list of LoadDocuments:
\* the file holds the list, and POSTs to /config/reload load it.
LoadInit == NegIdle /\ LabelsIdle /\ file \in LoadDocuments /\ RunStart

NextLoad ==
    \/ HandlerBegin(1, FALSE, EmptyBody)
    \/ ReceiveReload(1)
    \/ ReloadConfig
    \/ Respond
    \/ HandlerUnregister(1)
    \/ HandlerReloadMetrics(1)
    \/ HandlerRegister(1)
    \/ HandlerEnd(1)

SpecLoad == LoadInit /\ [][NextLoad]_vars

\* Overlapping HTTP reload requests, every document valid: the requests of
\* two handler goroutines, the SIGHUP goroutine and the edits of the file.
OverlapHandlers == {1, 2}

NextOverlap == ReloadStep(OverlapHandlers, {YamlB}, {YamlA})

SpecOverlap == Init /\ [][NextOverlap]_vars

\* The scrapes beside overlapping requests: POSTs to /config/reload and to
\* /config/update with a valid body, from two handler goroutines.
NextScrapeOverlap ==
    \/ \E h \in OverlapHandlers : HandlerBegin(h, FALSE, EmptyBody)
    \/ \E h \in OverlapHandlers : HandlerBegin(h, TRUE, YamlB)
    \/ \E h \in OverlapHandlers : ReceiveReload(h)
    \/ ReloadConfig
    \/ Respond
    \/ \E h \in OverlapHandlers : HandlerUnregister(h)
    \/ \E h \in OverlapHandlers : HandlerReloadMetrics(h)
    \/ \E h \in OverlapHandlers : HandlerRegister(h)
    \/ \E h \in OverlapHandlers : HandlerEnd(h)
    \/ PollStep(PlainReadOutcomes)

SpecScrapeOverlap == Init /\ [][NextScrapeOverlap]_vars

\* The startup over the command lines, the endpoint lists of at most one
\* endpoint and the configuration files of the model, then the scrapes.
StartConfigs ==
    [SecPolicy : {"auto", "Basic256", "Bogus"},
     SecMode : {"auto", "None", "Sign", "bogus"},
     AuthMode : {"Anonymous", "UserName", "Certificate"}]

StartEndpointLists == UNION {[1..n -> EndpointDescriptions] : n \in 0..1}

StartInit ==
    /\ srvCfg \in StartConfigs
    /\ discovery \in {"ok", "err"}
    /\ ee \in StartEndpointLists
    /\ discovery = "err" => ee = <<>>
    /\ negPc = "start"
    /\ negOut = NoOutcome
    /\ creds \in Creds
    /\ spc = "start"
    /\ client = NoClient
    /\ sfail = "none"
    /\ file \in {YamlA, YamlInvalid, NoFile}
    /\ scC = <<>>
    /\ collector = NoCollector
    /\ registered = {}
    /\ LabelsIdle
    /\ RunIdle

NextStart ==
    \/ StartNewConfig
    \/ StartFindEndpoint
    \/ StartLoadCertificate
    \/ StartOptions
    \/ \E ok \in BOOLEAN : StartConnect(ok)
    \/ StartLoadMetrics
    \/ StartRegister
    \/ PollStep(PlainReadOutcomes)

SpecStart == StartInit /\ [][NextStart]_vars

\* newMetric on every label map of the model, then getMetricWithValue on the
\* metric built.
LabelsInit ==
    /\ NegIdle
    /\ RunInit
    /\ lmap \in LabelMaps
    /\ lm = NoMetric
    /\ lsample = NoSample
    /\ lpc = "start"

\* loadMetricsCache line 136: newMetric(m.Name, m.Help, typ, m.Labels).
LabelsNewMetric ==
    /\ lpc = "start"
    /\ \E order \in Orders(lmap) :
            lm' = newMetric("flow", "CounterValue", lmap, order)
    /\ lpc' = "built"
    /\ UNCHANGED <<negVars, startVars, runVars, lmap, lsample>>

\* Collect line 95: getMetricWithValue on the metric of the entry.
LabelsCollect(value) ==
    /\ lpc = "built"
    /\ lsample' = getMetricWithValue(lm, value)
    /\ UNCHANGED <<negVars, startVars, runVars, lmap, lm, lpc>>

NextLabels ==
    \/ LabelsNewMetric
    \/ \E value \in {1, 2} : LabelsCollect(value)

SpecLabels == LabelsInit /\ [][NextLabels]_vars

\* The reload path alone, one HTTP request and the SIGHUP goroutine
\* contending for reloadCh, under the scheduling of the Go runtime: a
\* goroutine that can run does run, and the senders blocked on reloadCh are
\* served in turn.
NextReload ==
    ReloadStep({1}, {YamlB, YamlInvalid, YamlBadNode}, {YamlA, YamlBroken})

FairReload ==
    /\ Init
    /\ [][NextReload]_vars
    /\ WF_vars(ReloadConfig)
    /\ WF_vars(Respond)
    /\ \A r \in {1, Sighup} : SF_vars(ReceiveReload(r))

(***************************************************************************)
(* The negotiation on its own: every configuration and endpoint list of    *)
(* the bounds, with the rest of the program in its initial state.          *)
(***************************************************************************)
NegInit ==
    /\ srvCfg \in ServerConfigs
    /\ discovery \in {"ok", "err"}
    /\ ee \in EndpointLists
    /\ discovery = "err" => ee = <<>>
    /\ negPc = "start"
    /\ negOut = NoOutcome
    /\ LabelsIdle
    /\ RunInit

\* NewClientFromServerConfig line 16: e := findEndpoint(c, l).
FindEndpoint ==
    /\ negPc = "start"
    /\ negOut' = findEndpoint(srvCfg, discovery, ee)
    /\ negPc' = "done"
    /\ UNCHANGED <<srvCfg, discovery, ee, labelVars, startVars, runVars>>

NegNext == FindEndpoint

SpecNeg == NegInit /\ [][NegNext]_vars

(***************************************************************************)
(* Properties of the poll / cache / reload cycle.                          *)
(***************************************************************************)

\* The caches loadMetricsCache builds from the valid documents of the model.
Generations ==
    {NewCollector(d.metrics).opcuaMetricsCache :
        d \in {x \in Documents :
                 /\ LoadMetricsConfig(<<>>, x).err = "nil"
                 /\ loadMetricsCache(NoCollector, x.metrics).err = "nil"}}

\* The samples of out are those of the cache g: one per entry, in order, each
\* with the name and kind of its entry and the result of the node of its entry.
SamplesOf(out, g) ==
    /\ Len(out.samples) = Len(g)
    /\ \A i \in 1..Len(g) :
          /\ out.samples[i].name = g[i].name
          /\ out.samples[i].typ = g[i].typ
          /\ out.samples[i].node = g[i].nodeID

\* C1: a poll round, whatever reload runs alongside, ends with the error
\* sample of a failed read or with the samples of exactly one cache
\* generation: as many samples as that generation has entries, each of an
\* entry of that generation and read from the node of that entry.
C1_PollSeesOneGeneration ==
    \A p \in Pollers :
        ppc[p] = "done" =>
            \/ pout[p].kind = "error"
            \/ /\ pout[p].kind = "samples"
               /\ \E g \in Generations : SamplesOf(pout[p], g)

\* A poll round that began before a reload swapped the cache has emitted the
\* one sample of the old cache while the collector already holds the three
\* entries of the new one.
C1_Witness ==
    \E p \in Pollers :
        /\ ppc[p] = "done"
        /\ pout[p].kind = "samples"
        /\ SamplesOf(pout[p], NewCollector(YamlA.metrics).opcuaMetricsCache)
        /\ collector = NewCollector(YamlB.metrics)
        /\ pc[1] = "register"

\* The descriptors the registry exposes for the collectors registered.
RegisteredDescs(reg) == UNION {Describe(c) : c \in reg}

\* C2: when the reload of a request has failed (sendReloadChannel returned
\* an error, or loadMetricsCache did), the request ends with the cache and
\* the registered descriptors as they were when it began, and with the
\* failure reported to its caller.
C2_FailedReloadChangesNothing ==
    \A h \in Handlers :
        (pc[h] = "done" /\ (result[h] # "nil" \/ loadFailed[h])) =>
            /\ collector = before[h].collector
            /\ RegisteredDescs(registered) = RegisteredDescs(before[h].registered)
            /\ HttpStatus(h) = 500

\* A reload has begun and not ended: a step of it is done (the body written,
\* or the configuration re-parsed) and the collector is not yet registered
\* again.
InProgress(r) ==
    /\ r \in Handlers
    /\ pc[r] \in {"send", "recv", "unregister", "reloadMetrics", "register"}
    /\ wrote[r] \/ ran[r] # None

\* This step is a step of the reload of requester r: its body is written,
\* its configuration is re-parsed, or its handler unregisters, swaps the
\* cache or registers.
StepOf(r) ==
    \/ r \in Handlers /\ pc[r] = "idle" /\ wrote'[r]
    \/ cpc = "reload" /\ cpc' = "respond" /\ crc = r
    \/ /\ r \in Handlers
       /\ pc[r] \in {"unregister", "reloadMetrics", "register"}
       /\ pc'[r] # pc[r]

\* C3: no step of a reload is taken while another reload is in progress.
C3_ReloadsNeverInterleave ==
    [][\A r \in Requesters :
          StepOf(r) => \A o \in Requesters \ {r} : ~InProgress(o)]_vars

\* No reload is in flight.
Quiescent ==
    /\ cpc = "idle"
    /\ \A r \in Requesters : pc[r] \in {"idle", "done"}

\* C4: a poll round that begins when no reload is in flight, the last reload
\* having returned success, runs on the cache built from the configuration
\* that reload left in sc (whenever a cache can be built from it).
C4_PollUsesReloadedConfig ==
    [][\A p \in Pollers :
          (/\ ppc[p] = "idle" /\ ppc'[p] # "idle"
           /\ Quiescent /\ lastOk
           /\ loadMetricsCache(collector, scC).err = "nil")
          => pcoll'[p].opcuaMetricsCache = NewCollector(scC).opcuaMetricsCache]_vars

\* C5: sendReloadChannel holds no result while it is blocked, and past it
\* each requester holds the outcome of the one run of reloadConfig made for
\* its request; every requester blocked in sendReloadChannel is eventually
\* past it.
C5_SubmitReloadAnswered ==
    /\ [](\A r \in Requesters :
            /\ pc[r] \in {"send", "recv"} => result[r] = None
            /\ pc[r] \in {"unregister", "reloadMetrics", "register", "done"}
                  => ran[r] # None /\ result[r] = ran[r])
    /\ \A r \in Requesters :
          (pc[r] = "send") ~> (pc[r] \notin {"send", "recv"})

\* A handler and the SIGHUP goroutine submitted together: the SIGHUP request
\* was served first and answered with success, the handler then holds the
\* error of its own reload.
C5_Witness ==
    /\ pc[Sighup] = "done" /\ result[Sighup] = "nil"
    /\ pc[1] = "unregister" /\ result[1] = "missing field"
    /\ wrote[1]

(***************************************************************************)
(* Properties of the negotiation.                                          *)
(***************************************************************************)
NegReturned == negPc = "done" /\ negOut.status = "ok"

\* The constraints the configuration makes active: the resolved mode and
\* the resolved policy, after None was forced on both, each unless it is
\* still the one "auto" resolves to.
ForcedOf(c) == ForceNone(ResolveMode(c).mode, ResolvePolicy(c).policy)
ModeConstrained(c) == ForcedOf(c).mode # MessageSecurityModeInvalid
PolicyConstrained(c) == ForcedOf(c).policy # ""

Satisfies(c, e) ==
    /\ ModeConstrained(c) => e.SecurityMode = ForcedOf(c).mode
    /\ PolicyConstrained(c) => e.SecurityPolicyURI = ForcedOf(c).policy

\* (mode, level) of a before or equal to that of b, as a pair, mode first.
PairLeq(a, b) ==
    \/ a.SecurityMode < b.SecurityMode
    \/ a.SecurityMode = b.SecurityMode /\ a.SecurityLevel <= b.SecurityLevel

PairTie(a, b) ==
    a.SecurityMode = b.SecurityMode /\ a.SecurityLevel = b.SecurityLevel

\* C6: the endpoint findEndpoint returns satisfies every active constraint
\* and no endpoint satisfying them has a greater (mode, level) pair.
C6_MaximalPair ==
    NegReturned =>
        /\ Satisfies(srvCfg, ee[negOut.ep])
        /\ \A i \in 1..Len(ee) :
              Satisfies(srvCfg, ee[i]) => PairLeq(ee[i], ee[negOut.ep])

\* C7 as stated: among the endpoints satisfying the constraints that tie with
\* the returned one on (mode, level), the returned one is the first.
C7_FirstWinsTies ==
    NegReturned =>
        \A i \in 1..Len(ee) :
            Satisfies(srvCfg, ee[i]) /\ PairTie(ee[i], ee[negOut.ep])
                => negOut.ep <= i

\* C7 amended: among the endpoints satisfying the constraints that tie with
\* the returned one on (mode, level), the returned one is the last in
\* discovery order.
C7_LastWinsTies ==
    NegReturned =>
        \A i \in 1..Len(ee) :
            Satisfies(srvCfg, ee[i]) /\ PairTie(ee[i], ee[negOut.ep])
                => i <= negOut.ep

C7_Witness ==
    /\ NegReturned
    /\ negOut.ep = 2
    /\ Satisfies(srvCfg, ee[1]) /\ Satisfies(srvCfg, ee[2])
    /\ PairTie(ee[1], ee[2])
    /\ ee[1] # ee[2]

\* C8: when the mode resolves to None or the policy to the None URI, both
\* resolved values are None and the endpoint returned has mode None and the
\* None policy URI.
C8_NoneIsAllOrNothing ==
    LET rm == ResolveMode(srvCfg).mode
        rp == ResolvePolicy(srvCfg).policy
    IN  (NegReturned
         /\ (rm = MessageSecurityModeNone \/ rp = SecurityPolicyURINone))
        => /\ ForcedOf(srvCfg).mode = MessageSecurityModeNone
           /\ ForcedOf(srvCfg).policy = SecurityPolicyURINone
           /\ ee[negOut.ep].SecurityMode = MessageSecurityModeNone
           /\ ee[negOut.ep].SecurityPolicyURI = SecurityPolicyURINone

\* C9: an endpoint that findEndpoint returns advertises the requested user
\* token type.
C9_TokenAdvertised ==
    NegReturned =>
        UserTokenTypeFromString(srvCfg.AuthMode)
            \in ee[negOut.ep].UserIdentityTokens

C9_Witness ==
    /\ NegReturned
    /\ srvCfg.AuthMode = "UserName"
    /\ Len(ee) = 2
    /\ negOut.ep = 2
    /\ UserTokenTypeUserName \notin ee[1].UserIdentityTokens

\* C10: with a configuration that resolves, negotiation ends in
\* NoSuitableEndpoint when the endpoint that won the scan does not advertise
\* the requested token type, whatever the other endpoints advertise, and when
\* no endpoint of the list (the empty list included) satisfies the
\* constraints.
C10_NoFallback ==
    LET utt == UserTokenTypeFromString(srvCfg.AuthMode)
        resolves == /\ discovery = "ok"
                    /\ ResolvePolicy(srvCfg).ok
                    /\ ResolveMode(srvCfg).ok
        failed == negOut.status = "NoSuitableEndpoint" /\ negOut.ep = 0
    IN  (negPc = "done" /\ resolves) =>
            /\ (negOut.cand # 0 /\ utt \notin ee[negOut.cand].UserIdentityTokens)
                  => failed
            /\ (\A i \in 1..Len(ee) : ~Satisfies(srvCfg, ee[i])) => failed

\* C11: a configuration that differs from the one negotiated only in the
\* letter case of its mode has the same outcome on the same endpoint list.
C11_ModeCaseInsensitive ==
    negPc = "done" =>
        \A m \in SecModeInputs :
            ToLower(m) = ToLower(srvCfg.SecMode)
                => findEndpoint([srvCfg EXCEPT !.SecMode = m], discovery, ee) = negOut

\* The values the configuration documents: "auto", the six policy names and
\* their URIs; the four modes in any letter case.
RecognizedPolicy(p) ==
    p \in ({"auto"} \cup PolicyNames) \cup {WithURIPrefix(n) : n \in PolicyNames}

RecognizedMode(m) == ToLower(m) \in {"auto", "none", "sign", "signandencrypt"}

\* The policies findEndpoint resolves: "auto", a policy name, or any string
\* that begins with the policy URI prefix.
AcceptedPolicy(p) == p \in ({"auto"} \cup PolicyNames) \/ HasURIPrefix(p)

InvalidConfig == negOut.status \in {"InvalidPolicy", "InvalidMode"} /\ negOut.ep = 0

\* C12 as stated: once discovery has answered, a policy or a mode that is
\* not recognized ends the negotiation in InvalidConfig, without an
\* endpoint, whatever the endpoint list.
C12_UnrecognizedIsInvalid ==
    (negPc = "done" /\ discovery = "ok"
     /\ (~RecognizedPolicy(srvCfg.SecPolicy) \/ ~RecognizedMode(srvCfg.SecMode)))
        => InvalidConfig

\* C12 amended: the same for a policy that is neither "auto", nor a policy
\* name, nor a string with the policy URI prefix, and for a mode that is not
\* recognized.
C12_UnacceptedIsInvalid ==
    (negPc = "done" /\ discovery = "ok"
     /\ (~AcceptedPolicy(srvCfg.SecPolicy) \/ ~RecognizedMode(srvCfg.SecMode)))
        => InvalidConfig

\* An unknown mode ends the negotiation although the first endpoint of the
\* list fits the rest of the configuration.
C12_Witness ==
    /\ negPc = "done"
    /\ negOut.status = "InvalidMode"
    /\ srvCfg.SecMode = "bogus"
    /\ srvCfg.SecPolicy = "auto"
    /\ Len(ee) = 2
    /\ UserTokenTypeFromString(srvCfg.AuthMode) \in ee[1].UserIdentityTokens


\* The cache a scrape round of p runs on: the registered value it was
\* called on.
RoundCache(p) == pcoll[p].opcuaMetricsCache

\* A round of p has ended on a read that returned results.
RoundAnswered(p) == ppc[p] = "done" /\ pout[p].kind # "error"

\* C13: when the read returns as many results as the cache has entries, Collect
\* emits exactly that many per-metric samples, in cache order; the i-th sample
\* has the descriptor (name), the label values and, when it is a value, the
\* value kind of cache entry i, and the value or status of result i, which was
\* read from the node of entry i of the same cache.
C13_SamplesMatchEntries ==
    \A p \in Pollers :
        (RoundAnswered(p) /\ Len(presp[p]) = Len(RoundCache(p))) =>
            /\ pout[p].kind = "samples"
            /\ Len(pout[p].samples) = Len(RoundCache(p))
            /\ \A i \in 1..Len(RoundCache(p)) :
                /\ pout[p].samples[i].name = RoundCache(p)[i].name
                /\ pout[p].samples[i].labels = RoundCache(p)[i].labels
                /\ pout[p].samples[i].node = RoundCache(p)[i].nodeID
                /\ pout[p].samples[i].node = presp[p][i].node
                /\ pout[p].samples[i].status = presp[p][i].status
                /\ ~pout[p].samples[i].err => pout[p].samples[i].typ = RoundCache(p)[i].typ

C13_Witness ==
    \E p \in Pollers :
        /\ RoundAnswered(p)
        /\ Len(presp[p]) = 3
        /\ Len(pout[p].samples) = 3
        /\ pout[p].samples[2].labels # {}
        /\ pout[p].samples[1].typ # pout[p].samples[2].typ
        /\ \A i \in 1..3 : ~pout[p].samples[i].err

\* The indexes of the results of the round of p whose status is not StatusOK.
BadResults(p) == {i \in 1..Len(presp[p]) : presp[p][i].status # "StatusOK"}

\* C14: when N results come back for N cache entries and k of them have a
\* status that is not Good, Collect emits exactly k error samples, each at the
\* place of its own entry and naming the metric and the labels of that entry,
\* and N - k normal samples; a bad result does not stop the entries after it.
C14_BadStatusIsolated ==
    \A p \in Pollers :
        (RoundAnswered(p) /\ Len(presp[p]) = Len(RoundCache(p))) =>
            /\ pout[p].kind = "samples"
            /\ Len(pout[p].samples) = Len(RoundCache(p))
            /\ Cardinality({i \in 1..Len(pout[p].samples) : pout[p].samples[i].err})
                    = Cardinality(BadResults(p))
            /\ Cardinality({i \in 1..Len(pout[p].samples) : ~pout[p].samples[i].err})
                    = Len(RoundCache(p)) - Cardinality(BadResults(p))
            /\ \A i \in 1..Len(RoundCache(p)) :
                /\ pout[p].samples[i].err <=> i \in BadResults(p)
                /\ pout[p].samples[i].name = RoundCache(p)[i].name
                /\ pout[p].samples[i].labels = RoundCache(p)[i].labels

C14_Witness ==
    \E p \in Pollers :
        /\ RoundAnswered(p)
        /\ Len(presp[p]) = 3
        /\ BadResults(p) = {2}
        /\ Len(pout[p].samples) = 3
        /\ pout[p].samples[2].err
        /\ pout[p].samples[2].labels # {}
        /\ ~pout[p].samples[1].err
        /\ ~pout[p].samples[3].err

\* The round of p ended on a failed read.
RoundFailed(p) == ppc[p] = "done" /\ pout[p].kind = "error"

\* C15: a read that fails at request level makes the round emit exactly one
\* error sample, no per-metric and no statistics sample; the step leaves the
\* collector, its client and its cache, and the registered collectors as they
\* were; and a round after it whose read returns one good result per entry
\* emits the normal samples.
C15_RequestFailureDegradesOneRound ==
    /\ [](\A p \in Pollers :
            /\ RoundFailed(p) =>
                /\ pout[p].errors = 1
                /\ pout[p].samples = <<>>
                /\ pout[p].stats = {}
            /\ (RoundAnswered(p) /\ pfail[p] /\ Len(presp[p]) = Len(RoundCache(p))
                    /\ BadResults(p) = {}) =>
                /\ pout[p].kind = "samples"
                /\ pout[p].errors = 0
                /\ Len(pout[p].samples) = Len(RoundCache(p))
                /\ \A i \in 1..Len(RoundCache(p)) : ~pout[p].samples[i].err
                /\ pout[p].stats = StatsNames)
    /\ [][\A p \in Pollers :
            (ppc[p] = "idle" /\ RoundFailed(p)') =>
                /\ collector' = collector
                /\ registered' = registered
                /\ pcoll'[p] \in registered
                /\ pcoll'[p].opcuaClient = OpcuaClient]_vars

C15_Witness ==
    \E p \in Pollers :
        /\ RoundAnswered(p)
        /\ pfail[p]
        /\ Len(RoundCache(p)) = 3
        /\ Len(presp[p]) = 3
        /\ pout[p].kind = "samples"
        /\ \A i \in 1..3 : ~pout[p].samples[i].err

\* C16: no runtime failure ends the process: whatever the read returns (an
\* error, any number of results, any status per node) the round completes by
\* emitting samples, and a reload that fails completes by reporting its error
\* to the caller.
C16_NoRuntimeFailureTerminates ==
    /\ \A p \in Pollers :
        ppc[p] = "done" =>
            /\ pout[p].kind \in {"error", "samples"}
            /\ pout[p].errors + Len(pout[p].samples) > 0
    /\ \A r \in Requesters :
        (ran[r] \notin {None, "nil"} /\ pc[r] # "recv") => result[r] = ran[r]

\* The step of handler h through ReloadMetrics.
ReloadMetricsStep(h) == pc[h] = "reloadMetrics" /\ pc'[h] = "register"

\* The metric list has a node identifier that does not parse.
HasBadNode(metrics) == \E i \in 1..Len(metrics) : ParseNodeIDFails(metrics[i].NodeID)

\* C17: building the cache is all or nothing: when a node identifier of the
\* list does not parse, wherever it stands in the list, ReloadMetrics installs
\* no entry of the list and the collector keeps the cache it had.
C17_CacheBuildAllOrNothing ==
    [][\A h \in Handlers :
        (ReloadMetricsStep(h) /\ HasBadNode(scC)) =>
            /\ collector' = collector
            /\ loadFailed'[h]]_vars

C17_Witness ==
    /\ pc[1] = "register"
    /\ loadFailed[1]
    /\ scC = YamlBadNodeFirst.metrics
    /\ collector = NewCollector(YamlB.metrics)

\* Every entry of the list has a name, a help text, a node identifier and a
\* type.
AllFieldsSet(metrics) ==
    \A i \in 1..Len(metrics) :
        /\ metrics[i].Name # ""
        /\ metrics[i].Help # ""
        /\ metrics[i].NodeID # ""
        /\ metrics[i].Type # ""

\* A list of fully valid entries: at least one, every field set, every node
\* identifier parses.
FullyValid(metrics) ==
    Len(metrics) > 0 /\ AllFieldsSet(metrics) /\ ~HasBadNode(metrics)

\* The step of the consuming goroutine through reloadConfig.
ReloadConfigStep == cpc = "reload" /\ cpc' = "respond"

\* C18: loading a document with no entry, or with an entry whose name, help,
\* nodeid or type is empty, ends in an error; loading a document of N fully
\* valid entries succeeds and stores these entries, and the cache then built
\* from them has exactly N entries, the i-th made from the i-th of the list.
C18_ValidateThenCacheInOrder ==
    /\ [][(ReloadConfigStep /\ file.parses) =>
            /\ (Len(file.metrics) = 0 \/ ~AllFieldsSet(file.metrics)) => cerr' # "nil"
            /\ FullyValid(file.metrics) => (cerr' = "nil" /\ scC' = file.metrics)]_vars
    /\ [][\A h \in Handlers :
            (ReloadMetricsStep(h) /\ FullyValid(scC)) =>
                /\ ~loadFailed'[h]
                /\ Len(collector'.opcuaMetricsCache) = Len(scC)
                /\ \A i \in 1..Len(scC) :
                    /\ collector'.opcuaMetricsCache[i].name = scC[i].Name
                    /\ collector'.opcuaMetricsCache[i].help = scC[i].Help
                    /\ collector'.opcuaMetricsCache[i].nodeID = scC[i].NodeID
                    /\ collector'.opcuaMetricsCache[i].labels = scC[i].Labels]_vars

C18_Witness ==
    /\ pc[1] = "register"
    /\ result[1] = "nil"
    /\ file.metrics = <<MetricF, MetricP>>
    /\ Len(collector.opcuaMetricsCache) = 2
    /\ collector.opcuaMetricsCache[1].name = "flow"
    /\ collector.opcuaMetricsCache[2].name = "pressure"

\* C19: no step of a reload, of any requester and whether the reload
\* succeeds or fails, closes, reopens or replaces the client: the collector
\* and every registered collector value hold the handle NewCollector
\* connected, before and after; of the collector only the cache changes.
C19_ReloadKeepsSession ==
    /\ [](\A c \in registered \cup {collector} : c.opcuaClient = OpcuaClient)
    /\ [][/\ collector'.opcuaClient = collector.opcuaClient
          /\ \A c \in registered' : c.opcuaClient = collector.opcuaClient
          /\ collector' = [collector EXCEPT
                !.opcuaMetricsCache = collector'.opcuaMetricsCache]]_vars

C19_Witness ==
    /\ pc[1] = "done"
    /\ result[1] = "nil"
    /\ collector.opcuaMetricsCache = NewCollector(YamlB.metrics).opcuaMetricsCache
    /\ collector.opcuaClient = OpcuaClient
    /\ registered = {collector}

\* C20: a reload that is rejected (the document does not parse, has no
\* entry, or has an entry with a required field empty) leaves the stored
\* configuration, the one GetConfig and GetMetricsConfig return and /config
\* serves, as it was before the reload.
C20_RejectedReloadKeepsConfig ==
    [][(ReloadConfigStep /\ cerr' # "nil") => scC' = scC]_vars

(***************************************************************************)
(* Properties of the startup.                                              *)
(***************************************************************************)

\* findEndpoint returned an endpoint whose mode is Sign or SignAndEncrypt.
NegotiatedSigning ==
    /\ negOut.status = "ok"
    /\ ee[negOut.ep].SecurityMode
            \in {MessageSecurityModeSign, MessageSecurityModeSignAndEncrypt}

\* opcua.NewClient has been called with the options of the session.
SessionBuilt == spc \in {"built", "connected", "collector", "running"}

\* C21: when the negotiated endpoint has mode Sign or SignAndEncrypt, whatever
\* the auth mode and whether the mode was given or chosen by "auto": with the
\* certificate and key pair loaded the client is built with the pair as its
\* signing identity, and without it the client is never built nor connected
\* and the process ends with a certificate error.
C21_SigningNeedsPair ==
    NegotiatedSigning =>
        /\ (creds.pair = "rsa" /\ SessionBuilt) => client.signing
        /\ creds.pair # "rsa" =>
            /\ ~SessionBuilt
            /\ ~client.opened
            /\ spc = "exited" => sfail = "CertificateError"

\* C22: with auth mode UserName and an empty username the session is never
\* built nor opened and the process ends with a configuration error; with
\* auth mode Anonymous the session is built whatever the credentials given.
C22_UserNameNeedsUsername ==
    /\ (srvCfg.AuthMode = "UserName" /\ creds.Username = "") =>
        /\ ~SessionBuilt
        /\ ~client.opened
        /\ (spc = "exited" /\ negOut.status = "ok") =>
                sfail \in {"InvalidConfig", "CertificateError"}
    /\ (srvCfg.AuthMode = "Anonymous" /\ spc = "exited" /\ negOut.status = "ok") =>
        sfail \in {"CertificateError", "ConnectionError", "panic"}

\* The startup steps have all succeeded so far: the configuration loaded,
\* an endpoint was negotiated, the certificate loading did not fail.
StartupSound ==
    /\ LoadMetricsConfig(<<>>, file).err = "nil"
    /\ negOut.status = "ok"
    /\ ~loadCertificate(creds).fatal

\* C23: a failure of the startup ends the process: once negotiation, the
\* loading of the credentials or the first connection has failed the process
\* has exited and stays so, and in a run that has exited no collector is
\* registered and no scrape has run; a collector is registered only after
\* all of them succeeded and the client is connected.
C23_StartupFailuresAreFatal ==
    /\ [](/\ sfail # "none" => spc = "exited"
          /\ spc = "exited" =>
                /\ sfail # "none"
                /\ registered = {}
                /\ collector = NoCollector
                /\ \A p \in Pollers : ppc[p] = "idle" /\ ~pfail[p] /\ pout[p] = NoOutput
          /\ (registered # {} \/ \E p \in Pollers : ppc[p] # "idle") =>
                /\ StartupSound
                /\ client.opened
          /\ (negPc = "done" /\ negOut.status # "ok") => spc = "exited"
          /\ (spc \notin {"start", "config", "found"} /\ loadCertificate(creds).fatal) =>
                spc = "exited"
          /\ (spc \in {"connected", "collector", "running"}) => client.opened)
    /\ [][spc = "exited" => spc' = "exited"]_vars

C23_Witness ==
    /\ spc = "exited"
    /\ sfail = "ConnectionError"
    /\ negOut.status = "ok"
    /\ ~client.opened
    /\ client.auth = "UserName"
    /\ registered = {}

(***************************************************************************)
(* Properties of the generations of the cache.                             *)
(***************************************************************************)

\* C24: in every state at most one collector value is registered, and when
\* no reload is in flight the value registered is the collector with its
\* current cache, so that a scrape exposes the descriptors and samples of one
\* generation, the current one.
C24_OneGenerationRegistered ==
    /\ Cardinality(registered) <= 1
    /\ Quiescent => registered = {collector}

\* This step installs a cache in the collector: NewCollector at startup, or
\* the ReloadMetrics of a handler when loadMetricsCache returns no error.
InstallsCache ==
    \/ spc = "connected" /\ spc' = "collector"
    \/ \E h \in Handlers : ReloadMetricsStep(h) /\ ~loadFailed'[h]

\* C25: every cache installed in the collector, at startup or by a reload, is
\* built from a metric list that passes validation: the list is not empty and
\* every entry has a name, a help text, a node identifier and a type.
C25_CacheFromValidatedConfig ==
    [][InstallsCache =>
        /\ Len(scC) > 0
        /\ AllFieldsSet(scC)
        /\ Len(collector'.opcuaMetricsCache) = Len(scC)]_vars

\* This step unregisters or registers the collector.
RegistrationStep ==
    \E h \in Handlers : pc[h] \in {"unregister", "register"} /\ pc'[h] # pc[h]

\* C26: a registered collector value keeps its cache as long as it is
\* registered: the registered values change only where a handler unregisters
\* or registers, never where ReloadMetrics replaces the cache of the
\* collector; a scrape runs on a registered value, and the samples it emits
\* are those of the entries whose descriptors Describe reports for that value.
C26_RegisteredCacheIsStable ==
    /\ [][/\ registered' # registered => RegistrationStep
          /\ \A p \in Pollers :
                (ppc[p] = "idle" /\ ppc'[p] # "idle") => pcoll'[p] \in registered]_vars
    /\ [](\A p \in Pollers :
            (ppc[p] = "done" /\ pout[p].kind = "samples") =>
                /\ Len(pout[p].samples) = Len(RoundCache(p))
                /\ {pout[p].samples[i].name : i \in 1..Len(pout[p].samples)}
                        \cup StatsNames = Describe(pcoll[p]))

C26_Witness ==
    \E p \in Pollers :
        /\ ppc[p] = "done"
        /\ pout[p].kind = "samples"
        /\ pcoll[p] \in registered
        /\ registered = {NewCollector(YamlA.metrics)}
        /\ collector = NewCollector(YamlB.metrics)
        /\ Quiescent

(***************************************************************************)
(* Properties of the labels.                                               *)
(***************************************************************************)

\* C27: the label keys and the label values of a metric are sequences as
\* long as its label map has entries, the value at a position is the value
\* the map gives for the key at that position, and neither sequence changes
\* once the metric is built; so every sample made of the metric pairs each
\* label name of the descriptor with the value the map gives for it.
C27_LabelsLineUp ==
    /\ [](lpc = "built" =>
            /\ lm.labels = lmap
            /\ Len(lm.labelsKeys) = Cardinality(lmap)
            /\ Len(lm.labelsValues) = Cardinality(lmap)
            /\ {lm.labelsKeys[i] : i \in 1..Len(lm.labelsKeys)} = KeysOf(lmap)
            /\ \A i \in 1..Len(lm.labelsKeys) :
                    <<lm.labelsKeys[i], lm.labelsValues[i]>> \in lmap
            /\ lm.variableLabels = lm.labelsKeys
            /\ lsample # NoSample =>
                    /\ ~lsample.err
                    /\ Len(lsample.pairs) = Cardinality(lmap)
                    /\ \A i \in 1..Len(lsample.pairs) : lsample.pairs[i] \in lmap)
    /\ [][lpc = "built" => lm' = lm]_vars

C27_Witness ==
    /\ lpc = "built"
    /\ lmap = {<<"site", "a">>, <<"line", "b">>, <<"unit", "a">>}
    /\ lm.labelsKeys = <<"unit", "site", "line">>
    /\ lm.labelsValues = <<"a", "a", "b">>
    /\ lsample.pairs = <<<<"unit", "a">>, <<"site", "a">>, <<"line", "b">>>>
    /\ lsample.value = 2

====
